---- MODULE Spec2Model ----
(***************************************************************************)
(* Model of the Reversi rules engine in src/src/game.rs: the board, the    *)
(* per-cell legality test, move application and the turn state machine.    *)
(*                                                                         *)
(* Representation.                                                         *)
(*   Option<Color>      "None" | "Black" | "White"                         *)
(*   Coord (x, y)       <<x, y>>                                           *)
(*   [[_; 8]; 8]        a function over 0..7 of functions over 0..7,       *)
(*                      read cells[x][y] as in the source                  *)
(*   [i8; 8], DIRECTIONS  tuples; index i of the source is i + 1 here      *)
(*   Result<LegalMove, IllegalMove>   [ok |-> TRUE, move |-> m] or         *)
(*                      [ok |-> FALSE, reason |-> e]                       *)
(*   Option<IllegalMove>  [some |-> FALSE] or [some |-> TRUE, value |-> e] *)
(*   Game               a record tagged "Place", "Skip" or "End"; the      *)
(*                      extra tag "Panic" stands for a call that aborted   *)
(*                      (index out of bounds, unwrap of None) instead of   *)
(*                      returning a Game.                                  *)
(***************************************************************************)
EXTENDS Integers, Sequences, FiniteSets, TLC

\* game: the Game value the caller holds.
\* last_call: the call that returned it, with the selected cell when the
\*   call was a placement on a cell holding a LegalMove.  Rejected attempts
\*   are recorded without their cell, so that states differing only in
\*   which illegal cell was tried are one state.
\* probe: the board, color and last outcome of a pure-function call.
VARIABLES game, last_call, probe

vars == <<game, last_call, probe>>

(***************************************************************************)
(* Bounds of the model.                                                    *)
(***************************************************************************)

\* The caller chooses freely among all cells for the first FreeMoves legal
\* placements of a game; afterwards it still may try any illegal cell, but
\* the only legal cell it selects is the first one of the grid in
\* column-major order.  This keeps the set of explored games finite and
\* small while every game still runs to its end.
FreeMoves == 2

\* Boards given to the pure functions hold a pattern of at most MaxLen
\* cells laid along one ray.
MaxLen == 4

(***************************************************************************)
(* Constants of the program.                                               *)
(***************************************************************************)

\* cells: [[Option<Color>; 8]; 8]
BoardSize == 8

\* (0..7) in Board::test: the legality grid has 7 columns of 7 rows.
GridSize == 7

\* Number of pieces Board::new puts on the board.
OpeningPieces == 4

Index == 0 .. (BoardSize - 1)

GridIndex == 0 .. (GridSize - 1)

Coord == Index \X Index

Color == {"Black", "White"}

None == "None"

\* Color::flip
flip(color) == IF color = "Black" THEN "White" ELSE "Black"

\* A variant of DIRECTIONS that lists S where the source lists N and N where
\* it lists S.
DIRECTIONS_south_first ==
  << <<0, -1>>, <<1, 1>>, <<1, 0>>, <<1, -1>>,
     <<0, 1>>, <<-1, -1>>, <<-1, 0>>, <<-1, 1>> >>

\* pub const DIRECTIONS
DIRECTIONS ==
  << <<0, 1>>, <<1, 1>>, <<1, 0>>, <<1, -1>>,
     <<0, -1>>, <<-1, -1>>, <<-1, 0>>, <<-1, 1>> >>

DirIndex == 1 .. 8

\* IllegalMove::Occupied(color)
Occupied(color) == [kind |-> "Occupied", color |-> color]

\* IllegalMove::Ineffective
Ineffective == [kind |-> "Ineffective"]

Ok(move) == [ok |-> TRUE, move |-> move]

Err(reason) == [ok |-> FALSE, reason |-> reason]

Some(value) == [some |-> TRUE, value |-> value]

NoReason == [some |-> FALSE]

\* Sum of the entries of a tuple of integers.
RECURSIVE SumFrom(_, _)
SumFrom(s, i) == IF i > Len(s) THEN 0 ELSE s[i] + SumFrom(s, i + 1)

Sum(s) == SumFrom(s, 1)

(***************************************************************************)
(* Board                                                                   *)
(***************************************************************************)

\* A variant of Board::new with the two colors exchanged.
NewBoard_colors_swapped ==
  [x \in Index |-> [y \in Index |->
     IF <<x, y>> \in {<<3, 3>>, <<4, 4>>} THEN "White"
     ELSE IF <<x, y>> \in {<<3, 4>>, <<4, 3>>} THEN "Black"
     ELSE None]]

\* Board::new
NewBoard ==
  [x \in Index |-> [y \in Index |->
     IF <<x, y>> \in {<<3, 3>>, <<4, 4>>} THEN "Black"
     ELSE IF <<x, y>> \in {<<3, 4>>, <<4, 3>>} THEN "White"
     ELSE None]]

\* A variant of test_direction that lets an empty cell close the line.
RECURSIVE test_direction_empty_closes(_, _, _, _, _)
test_direction_empty_closes(cells, color, position, direction, n) ==
  LET nx == position[1] + direction[1]
      ny == position[2] + direction[2]
  IN  IF nx = 8 \/ nx = -1 \/ ny = 8 \/ ny = -1
      THEN 0
      ELSE IF cells[nx][ny] = None THEN n
      ELSE IF cells[nx][ny] = color THEN n
      ELSE test_direction_empty_closes(cells, color, <<nx, ny>>,
                                       direction, n + 1)

\* A variant of test_direction that counts the closing piece as captured.
RECURSIVE test_direction_counts_closer(_, _, _, _, _)
test_direction_counts_closer(cells, color, position, direction, n) ==
  LET nx == position[1] + direction[1]
      ny == position[2] + direction[2]
  IN  IF nx = 8 \/ nx = -1 \/ ny = 8 \/ ny = -1
      THEN 0
      ELSE IF cells[nx][ny] = None THEN 0
      ELSE IF cells[nx][ny] = color THEN n + 1
      ELSE test_direction_counts_closer(cells, color, <<nx, ny>>,
                                        direction, n + 1)

\* test_direction: number of opponent pieces sandwiched in a straight line
\* between position and a piece of color.
RECURSIVE test_direction(_, _, _, _, _)
test_direction(cells, color, position, direction, n) ==
  LET nx == position[1] + direction[1]
      ny == position[2] + direction[2]
  IN  IF nx = 8 \/ nx = -1 \/ ny = 8 \/ ny = -1
      THEN 0
      ELSE IF cells[nx][ny] = None THEN 0
      ELSE IF cells[nx][ny] = color THEN n
      ELSE test_direction(cells, color, <<nx, ny>>, direction, n + 1)

\* A variant of test_position that reports the tested color, not the
\* occupant, in Occupied.
test_position_reports_mover(cells, color, position) ==
  LET x == position[1]
      y == position[2]
      flips == [i \in DirIndex |->
                  test_direction(cells, color, <<x, y>>, DIRECTIONS[i], 0)]
      sum == Sum(flips)
  IN  IF cells[x][y] # None
      THEN Err(Occupied(color))
      ELSE IF sum = 0
      THEN Err(Ineffective)
      ELSE Ok([color |-> color, flips |-> flips, position |-> position])

\* A variant of test_position that accepts every empty cell, without the
\* check sum == 0.
test_position_no_sum_check(cells, color, position) ==
  LET x == position[1]
      y == position[2]
      flips == [i \in DirIndex |->
                  test_direction(cells, color, <<x, y>>, DIRECTIONS[i], 0)]
  IN  IF cells[x][y] # None
      THEN Err(Occupied(cells[x][y]))
      ELSE Ok([color |-> color, flips |-> flips, position |-> position])

\* test_position.  The source matches on the cell first; the loop over
\* DIRECTIONS that fills flips and sum runs only for an empty cell and has
\* no other effect.  sum is an i8; a direction counts at most 6 pieces, so
\* it stays below 48 and never wraps.
test_position(cells, color, position) ==
  LET x == position[1]
      y == position[2]
      flips == [i \in DirIndex |->
                  test_direction(cells, color, <<x, y>>, DIRECTIONS[i], 0)]
      sum == Sum(flips)
  IN  IF cells[x][y] # None
      THEN Err(Occupied(cells[x][y]))
      ELSE IF sum = 0
      THEN Err(Ineffective)
      ELSE Ok([color |-> color, flips |-> flips, position |-> position])

\* A variant of Board::test that covers the 8 columns and 8 rows.
test_whole_board(cells, color) ==
  [i \in Index |-> [j \in Index |->
     test_position(cells, color, <<i, j>>)]]

\* Board::test
test(cells, color) ==
  [i \in GridIndex |-> [j \in GridIndex |->
     test_position(cells, color, <<i, j>>)]]

(***************************************************************************)
(* LegalMove::apply                                                        *)
(***************************************************************************)

\* A variant of flip_direction that flips one piece less than asked.
RECURSIVE flip_direction_one_short(_, _, _, _)
flip_direction_one_short(r, position, direction, n) ==
  IF r.panic \/ n = 0 \/ n = 1
  THEN r
  ELSE LET nx == position[1] + direction[1]
           ny == position[2] + direction[2]
       IN  IF nx \notin Index \/ ny \notin Index
           THEN [r EXCEPT !.panic = TRUE]
           ELSE IF r.cells[nx][ny] = None
           THEN [r EXCEPT !.panic = TRUE]
           ELSE flip_direction_one_short(
                  [r EXCEPT !.cells[nx][ny] = flip(r.cells[nx][ny])],
                  <<nx, ny>>, direction, n - 1)

\* flip_direction works on a mutable board; r carries the board and
\* whether an index or an unwrap has aborted the call.
RECURSIVE flip_direction(_, _, _, _)
flip_direction(r, position, direction, n) ==
  IF r.panic \/ n = 0
  THEN r
  ELSE LET nx == position[1] + direction[1]
           ny == position[2] + direction[2]
       IN  IF nx \notin Index \/ ny \notin Index
           THEN [r EXCEPT !.panic = TRUE]
           ELSE IF r.cells[nx][ny] = None
           THEN [r EXCEPT !.panic = TRUE]
           ELSE flip_direction(
                  [r EXCEPT !.cells[nx][ny] = flip(r.cells[nx][ny])],
                  <<nx, ny>>, direction, n - 1)

\* A variant of the loop over DIRECTIONS that stops before the last
\* direction.
RECURSIVE flip_directions_but_last(_, _, _)
flip_directions_but_last(r, move, i) ==
  IF i > 7
  THEN r
  ELSE flip_directions_but_last(
         flip_direction(r, move.position, DIRECTIONS[i], move.flips[i]),
         move, i + 1)

\* The loop `for (i, &(h, v)) in DIRECTIONS` of apply, from direction i on.
RECURSIVE flip_directions(_, _, _)
flip_directions(r, move, i) ==
  IF i > 8
  THEN r
  ELSE flip_directions(
         flip_direction(r, move.position, DIRECTIONS[i], move.flips[i]),
         move, i + 1)

\* A variant of apply that flips the captured pieces but leaves the
\* position of the move as it was.
apply_without_piece(move, board) ==
  flip_directions([panic |-> FALSE, cells |-> board], move, 1)

\* LegalMove::apply
apply(move, board) ==
  LET r == flip_directions([panic |-> FALSE, cells |-> board], move, 1)
      x == move.position[1]
      y == move.position[2]
  IN  IF r.panic
      THEN r
      ELSE [r EXCEPT !.cells[x][y] = move.color]

(***************************************************************************)
(* Game                                                                    *)
(***************************************************************************)

PlaceState(player, board, moves, retry_reason) ==
  [tag |-> "Place", player |-> player, retry_reason |-> retry_reason,
   moves |-> moves, board |-> board]

SkipState(player, board) ==
  [tag |-> "Skip", player |-> player, board |-> board]

End == [tag |-> "End"]

Panic == [tag |-> "Panic"]

\* next_moves.iter().any(|x| x.iter().any(|x| x.is_ok()))
has_valid_move(moves) ==
  \E i \in DOMAIN moves : \E j \in DOMAIN moves[i] : moves[i][j].ok

\* new_game
new_game == PlaceState("Black", NewBoard, test(NewBoard, "Black"), NoReason)

\* A variant of the Err arm of place that reports Ineffective whatever the
\* grid entry says.
place_illegal_any_reason(self, illegal_move) ==
  [self EXCEPT !.retry_reason = Some(Ineffective)]

\* Place::place, the arm Err(illegal_move)
place_illegal(self, illegal_move) ==
  [self EXCEPT !.retry_reason = Some(illegal_move)]

\* A variant of the Ok arm of place that tests the board before the move
\* instead of the board after it.
place_legal_stale_grid(self, legal_move) ==
  LET applied == apply(legal_move, self.board)
      next_board == applied.cells
      next_player == flip(self.player)
      next_moves == test(self.board, next_player)
  IN  IF applied.panic
      THEN Panic
      ELSE IF has_valid_move(next_moves)
      THEN PlaceState(next_player, next_board, next_moves, NoReason)
      ELSE SkipState(next_player, next_board)

\* A variant of the Ok arm of place that tests the new board for the player
\* who has just moved.
place_legal_tests_mover(self, legal_move) ==
  LET applied == apply(legal_move, self.board)
      next_board == applied.cells
      next_player == flip(self.player)
      next_moves == test(next_board, self.player)
  IN  IF applied.panic
      THEN Panic
      ELSE IF has_valid_move(next_moves)
      THEN PlaceState(next_player, next_board, next_moves, NoReason)
      ELSE SkipState(next_player, next_board)

\* A variant of the Ok arm of place that leaves the turn with the player
\* who has just moved.
place_legal_keeps_turn(self, legal_move) ==
  LET applied == apply(legal_move, self.board)
      next_board == applied.cells
      next_player == self.player
      next_moves == test(next_board, next_player)
  IN  IF applied.panic
      THEN Panic
      ELSE IF has_valid_move(next_moves)
      THEN PlaceState(next_player, next_board, next_moves, NoReason)
      ELSE SkipState(next_player, next_board)

\* Place::place, the arm Ok(legal_move)
place_legal(self, legal_move) ==
  LET applied == apply(legal_move, self.board)
      next_board == applied.cells
      next_player == flip(self.player)
      next_moves == test(next_board, next_player)
  IN  IF applied.panic
      THEN Panic
      ELSE IF has_valid_move(next_moves)
      THEN PlaceState(next_player, next_board, next_moves, NoReason)
      ELSE SkipState(next_player, next_board)

\* Place::place.  self.moves is a Vec of 7 Vecs of 7 entries; indexing it
\* out of bounds aborts.
place(self, selected_cell) ==
  LET x == selected_cell[1]
      y == selected_cell[2]
  IN  IF x \notin DOMAIN self.moves
      THEN Panic
      ELSE IF y \notin DOMAIN self.moves[x]
      THEN Panic
      ELSE IF ~self.moves[x][y].ok
      THEN place_illegal(self, self.moves[x][y].reason)
      ELSE place_legal(self, self.moves[x][y].move)

\* A variant of skip that hands the turn back to the player who skipped.
skip_same_player(self) ==
  LET next_player == self.player
      next_moves == test(self.board, next_player)
  IN  IF has_valid_move(next_moves)
      THEN PlaceState(next_player, self.board, next_moves, NoReason)
      ELSE End

\* A variant of skip that returns Place without looking for a LegalMove.
skip_always_place(self) ==
  LET next_player == flip(self.player)
      next_moves == test(self.board, next_player)
  IN  PlaceState(next_player, self.board, next_moves, NoReason)

\* Skip::skip
skip(self) ==
  LET next_player == flip(self.player)
      next_moves == test(self.board, next_player)
  IN  IF has_valid_move(next_moves)
      THEN PlaceState(next_player, self.board, next_moves, NoReason)
      ELSE End

(***************************************************************************)
(* The caller: a presentation layer that feeds cell selections and skips.  *)
(***************************************************************************)

\* Number of occupied cells of a board.
Pieces(board) ==
  Cardinality({c \in Coord : board[c[1]][c[2]] # None})

\* Number of cells of a board holding color.
PiecesOf(board, color) ==
  Cardinality({c \in Coord : board[c[1]][c[2]] = color})

\* The cells of the grid holding a LegalMove.
LegalCells(moves) ==
  {c \in GridIndex \X GridIndex : moves[c[1]][c[2]].ok}

\* c comes before d in column-major order.
Before(c, d) == c[1] < d[1] \/ (c[1] = d[1] /\ c[2] < d[2])

FirstLegal(moves) ==
  {c \in LegalCells(moves) : \A d \in LegalCells(moves) : ~Before(d, c)}

\* The cells the caller may select in a Place state (see FreeMoves).
Selectable(self) ==
  IF Pieces(self.board) < OpeningPieces + FreeMoves
  THEN Coord
  ELSE (Coord \ LegalCells(self.moves)) \cup FirstLegal(self.moves)

Idle == [call |-> "none"]

InGrid(c) == c[1] \in GridIndex /\ c[2] \in GridIndex

Entry(moves, c) == moves[c[1]][c[2]]

\* The cells the caller selects from in the current state.
Selection == IF game.tag = "Place" THEN Selectable(game) ELSE {}

\* The caller selects cell c in a Place state.
CallPlace(c) ==
  /\ game.tag = "Place"
  /\ game' = place(game, c)
  /\ last_call' = IF InGrid(c) /\ Entry(game.moves, c).ok
                  THEN [op |-> "place", cell |-> c]
                  ELSE [op |-> "place"]
  /\ UNCHANGED probe

\* The caller acknowledges a Skip state.
CallSkip ==
  /\ game.tag = "Skip"
  /\ game' = skip(game)
  /\ last_call' = [op |-> "skip"]
  /\ UNCHANGED probe

Init ==
  /\ game = new_game
  /\ last_call = [op |-> "new_game"]
  /\ probe = Idle

Next ==
  \/ \E c \in Selection : CallPlace(c)
  \/ CallSkip

Spec == Init /\ [][Next]_vars

(***************************************************************************)
(* The pure functions on arbitrary boards.  Board.cells is public, so a    *)
(* caller can hand any constellation to the tester and the applier; probe  *)
(* holds one such board and color and the outcome of the last call on it.  *)
(***************************************************************************)

\* The boards probed: the opening board overlaid with a pattern of MaxLen
\* cells (empty, Black or White) laid from an origin along one direction;
\* the part of the pattern that leaves the board is dropped.
Origins == {<<0, 0>>, <<7, 7>>, <<2, 5>>}

Patterns == [1 .. MaxLen -> {None} \cup Color]

Overlay(base, o, d, s) ==
  [x \in Index |-> [y \in Index |->
     IF \E k \in 1 .. MaxLen :
          x = o[1] + (k - 1) * d[1] /\ y = o[2] + (k - 1) * d[2]
     THEN s[CHOOSE k \in 1 .. MaxLen :
              x = o[1] + (k - 1) * d[1] /\ y = o[2] + (k - 1) * d[2]]
     ELSE base[x][y]]]

ProbeBoards ==
  {Overlay(NewBoard, o, DIRECTIONS[i], s) :
     o \in Origins, i \in DirIndex, s \in Patterns}

\* test_position is called on the probed board.
TestPosition(p) ==
  /\ probe.call = "none"
  /\ probe' = [call |-> "test_position", board |-> probe.board,
               color |-> probe.color, position |-> p,
               result |-> test_position(probe.board, probe.color, p)]
  /\ UNCHANGED <<game, last_call>>

\* The LegalMove the tester has just produced is applied to the board it
\* was computed against.
Apply ==
  /\ probe.call = "test_position"
  /\ probe.result.ok
  /\ probe' = [call |-> "apply", board |-> probe.board,
               color |-> probe.color, move |-> probe.result.move,
               result |-> apply(probe.result.move, probe.board)]
  /\ UNCHANGED <<game, last_call>>

InitFn ==
  /\ game = new_game
  /\ last_call = [op |-> "new_game"]
  /\ probe \in {[call |-> "none", board |-> b, color |-> c] :
                  b \in ProbeBoards, c \in Color}

NextFn ==
  \/ \E p \in Coord : TestPosition(p)
  \/ Apply

SpecFn == InitFn /\ [][NextFn]_vars

(***************************************************************************)
(* The sandwich rule, stated on the geometry of the board.                 *)
(***************************************************************************)

At(board, c) == board[c[1]][c[2]]

OnBoard(c) == c[1] \in Index /\ c[2] \in Index

\* The cell k steps from p along d.
RayCell(p, d, k) == <<p[1] + k * d[1], p[2] + k * d[2]>>

\* The k cells following p along d hold the opponent of color, and the
\* next one is on the board and holds color.
Closes(board, color, p, d, k) ==
  /\ \A j \in 1 .. k :
       OnBoard(RayCell(p, d, j)) /\ At(board, RayCell(p, d, j)) = flip(color)
  /\ OnBoard(RayCell(p, d, k + 1))
  /\ At(board, RayCell(p, d, k + 1)) = color

\* p is a legal placement for color: empty, and some ray closes on at least
\* one opponent piece.
SandwichLegal(board, color, p) ==
  /\ At(board, p) = None
  /\ \E i \in DirIndex : \E k \in 1 .. BoardSize :
       Closes(board, color, p, DIRECTIONS[i], k)

NoLegalCell(board, color) ==
  \A p \in Coord : ~SandwichLegal(board, color, p)

\* The step is a call of place on a cell whose grid entry is a LegalMove.
LegalAttempt(c) ==
  /\ game.tag = "Place"
  /\ last_call' = [op |-> "place", cell |-> c]

(***************************************************************************)
(* Claims on the turn state machine (specification Spec).                  *)
(***************************************************************************)

\* C1: an illegal attempt changes nothing but the retry signal: in every
\* reachable Place state s, for every cell c whose grid entry is an
\* IllegalMove e, place(s, c) is a Place with the player, board and grid of
\* s and with retry_reason = Some(e).
C1_IllegalAttemptOnlySetsRetry ==
  game.tag = "Place" =>
    \A c \in Coord :
      (InGrid(c) /\ ~Entry(game.moves, c).ok) =>
        LET returned == place(game, c)
        IN  /\ returned.tag = "Place"
            /\ returned.player = game.player
            /\ returned.board = game.board
            /\ returned.moves = game.moves
            /\ returned.retry_reason = Some(Entry(game.moves, c).reason)

\* Black's piece on (3,3) of the opening board has been selected.
C1_Witness ==
  /\ last_call.op = "place"
  /\ game.tag = "Place"
  /\ game.board = NewBoard
  /\ game.player = "Black"
  /\ game.retry_reason = Some(Occupied("Black"))

\* C2: a legal attempt hands the turn to the opponent: with newBoard the
\* move applied to the board and opponent the other color, place returns
\* Place{opponent, newBoard, test(newBoard, opponent), none} if that grid
\* holds a LegalMove and Skip{opponent, newBoard} otherwise.
C2_LegalAttemptPassesTurn ==
  [][\A c \in Coord : LegalAttempt(c) =>
       LET newBoard == apply(Entry(game.moves, c).move, game.board).cells
           opponent == flip(game.player)
           opponentGrid == test(newBoard, opponent)
       IN  IF \E i \in GridIndex : \E j \in GridIndex : opponentGrid[i][j].ok
           THEN game' = [tag |-> "Place", player |-> opponent,
                         board |-> newBoard, moves |-> opponentGrid,
                         retry_reason |-> NoReason]
           ELSE game' = [tag |-> "Skip", player |-> opponent,
                         board |-> newBoard]]_vars

\* A legal placement has left the opponent without a move.
C2_Witness ==
  /\ last_call.op = "place"
  /\ game.tag = "Skip"
  /\ Pieces(game.board) > OpeningPieces

\* C3: skip never alters the board: it returns Place for the other player
\* on the same board with a fresh grid if that grid holds a LegalMove, and
\* End otherwise.
C3_SkipKeepsBoard ==
  [][CallSkip =>
       LET returning == flip(game.player)
           returningGrid == test(game.board, returning)
       IN  IF \E i \in GridIndex : \E j \in GridIndex : returningGrid[i][j].ok
           THEN /\ game' = [tag |-> "Place", player |-> returning,
                            board |-> game.board, moves |-> returningGrid,
                            retry_reason |-> NoReason]
                /\ Pieces(game'.board) = Pieces(game.board)
           ELSE game' = End]_vars

\* skip has returned a Place state.
C3_Witness ==
  /\ last_call.op = "skip"
  /\ game.tag = "Place"

\* C4: the legality grid of every Place state has an entry for each of the
\* 64 cells, equal to the per-cell test for the state's player and board.
C4_GridCoversBoard ==
  game.tag = "Place" =>
    \A c \in Coord :
      /\ c[1] \in DOMAIN game.moves
      /\ c[2] \in DOMAIN game.moves[c[1]]
      /\ Entry(game.moves, c) = test_position(game.board, game.player, c)

\* C5: place on a cell of [0,7]x[0,7] returns a Game value and never
\* aborts.
C5_PlaceNeverAborts ==
  game.tag \in {"Place", "Skip", "End"}

\* C6: a Skip state is entered only when its player has no legal placement
\* on any of the 64 cells, and End only from a board on which neither color
\* has one.
C6_NoMoveMeansNoMove ==
  [][/\ game'.tag = "Skip" => NoLegalCell(game'.board, game'.player)
     /\ game'.tag = "End" =>
          NoLegalCell(game.board, "Black") /\ NoLegalCell(game.board, "White")
    ]_vars

\* C10 as stated: a legal placement increases the number of occupied cells
\* by 1 + sum(flips).
C10_TotalGrowsByFlips ==
  [][\A c \in Coord : LegalAttempt(c) =>
       /\ game'.tag \in {"Place", "Skip"}
       /\ Pieces(game'.board) =
            Pieces(game.board) + 1 + Sum(Entry(game.moves, c).move.flips)
    ]_vars

\* C10 amended: a legal placement increases the number of occupied cells
\* by exactly 1 and the number of cells of the mover's color by exactly
\* 1 + sum(flips).
C10_MoverGrowsByFlips ==
  [][\A c \in Coord : LegalAttempt(c) =>
       /\ game'.tag \in {"Place", "Skip"}
       /\ Pieces(game'.board) = Pieces(game.board) + 1
       /\ PiecesOf(game'.board, game.player) =
            PiecesOf(game.board, game.player) + 1
              + Sum(Entry(game.moves, c).move.flips)
    ]_vars

\* A placement that flipped at least two pieces has been made.
C10_Witness ==
  /\ last_call.op = "place"
  /\ game.tag = "Place"
  /\ game.retry_reason = NoReason
  /\ PiecesOf(game.board, flip(game.player))
       > PiecesOf(game.board, game.player) + 3

(***************************************************************************)
(* Claims on the pure functions (specification SpecFn).                    *)
(***************************************************************************)

\* C7: for an empty cell p and each direction d, the count the tester
\* records equals k if the k >= 0 cells following p along d are all the
\* opponent's and the next cell is on the board and holds color, and 0 if
\* no such k exists (the walk leaves the board or meets an empty cell
\* first).
C7_CountFollowsSandwich ==
  (probe.call = "test_position" /\ At(probe.board, probe.position) = None) =>
    \A i \in DirIndex :
      LET d == DIRECTIONS[i]
          count == test_direction(probe.board, probe.color,
                                  probe.position, d, 0)
          closing == {k \in 0 .. BoardSize :
                        Closes(probe.board, probe.color, probe.position, d, k)}
      IN  /\ \A k \in closing : count = k
          /\ closing = {} => count = 0
          /\ probe.result.ok => probe.result.move.flips[i] = count

\* The tester has recorded a line of at least two captured pieces.
C7_Witness ==
  /\ probe.call = "test_position"
  /\ probe.result.ok
  /\ \E i \in DirIndex : probe.result.move.flips[i] >= 2

\* The number of pieces the sandwich rule captures along direction d.
Captured(board, color, p, d) ==
  IF \E k \in 1 .. BoardSize : Closes(board, color, p, d, k)
  THEN CHOOSE k \in 1 .. BoardSize : Closes(board, color, p, d, k)
  ELSE 0

CapturedSum(board, color, p) ==
  Sum([i \in DirIndex |-> Captured(board, color, p, DIRECTIONS[i])])

\* C8: the per-cell test returns Occupied(c) iff the cell holds color c,
\* Ineffective iff the cell is empty and the capture counts sum to 0, and
\* otherwise a LegalMove whose counts sum to at least 1.
C8_CellClassification ==
  probe.call = "test_position" =>
    LET cell == At(probe.board, probe.position)
        total == CapturedSum(probe.board, probe.color, probe.position)
        result == probe.result
    IN  /\ \A c \in Color : (result = Err(Occupied(c))) <=> (cell = c)
        /\ (result = Err(Ineffective)) <=> (cell = None /\ total = 0)
        /\ (cell = None /\ total # 0) =>
             /\ result.ok
             /\ Sum(result.move.flips) >= 1
             /\ Sum(result.move.flips) = total

\* A piece of the other color than the tested one occupies the cell.
C8_Witness ==
  /\ probe.call = "test_position"
  /\ ~probe.result.ok
  /\ probe.result.reason = Occupied(flip(probe.color))

\* The board C9 describes: board with the captured cells and the position
\* of the move recolored to its color.
Recolored(board, move) ==
  [x \in Index |-> [y \in Index |->
     IF \/ <<x, y>> = move.position
        \/ \E i \in DirIndex : \E k \in 1 .. move.flips[i] :
             <<x, y>> = RayCell(move.position, DIRECTIONS[i], k)
     THEN move.color
     ELSE board[x][y]]]

\* C9: applying a LegalMove the tester produced for a board gives that
\* board with, for each direction with count n > 0, the n cells following
\* the position recolored to the move's color, the position holding that
\* color, and every other cell unchanged.
C9_ApplyRecolors ==
  probe.call = "apply" =>
    /\ ~probe.result.panic
    /\ probe.result.cells = Recolored(probe.board, probe.move)

\* A move capturing in at least two directions has been applied.
C9_Witness ==
  /\ probe.call = "apply"
  /\ ~probe.result.panic
  /\ Cardinality({i \in DirIndex : probe.move.flips[i] > 0}) >= 2

(***************************************************************************)
(* Further claims on the turn state machine (specification Spec).          *)
(***************************************************************************)

\* C11: new_game returns Place with player Black, no retry reason, the
\* grid test(board, Black) and a board equal to Board::new, which holds
\* Black on (3,3) and (4,4), White on (3,4) and (4,3) and 60 empty cells.
C11_InitialState ==
  last_call.op = "new_game" =>
    /\ game.tag = "Place"
    /\ game.player = "Black"
    /\ game.retry_reason = NoReason
    /\ game.moves = test(game.board, "Black")
    /\ game.board = NewBoard
    /\ At(game.board, <<3, 3>>) = "Black"
    /\ At(game.board, <<3, 4>>) = "White"
    /\ At(game.board, <<4, 3>>) = "White"
    /\ At(game.board, <<4, 4>>) = "Black"
    /\ Cardinality({c \in Coord : At(game.board, c) # None}) = 4
    /\ Cardinality({c \in Coord : At(game.board, c) = None}) = 60

\* The state new_game returned, before any call.
C11_Witness ==
  /\ last_call.op = "new_game"
  /\ game.tag = "Place"
  /\ game.moves[3][5].ok

\* C12: in the initial state the grid entry of (3,5) is a LegalMove for
\* Black capturing 1 piece in direction (0,-1), the fifth of DIRECTIONS,
\* and none in the other seven; placing there leaves Black on (3,4) and
\* (3,5) and makes White the active player.
C12_OpeningScenario ==
  [][last_call.op = "new_game" =>
       /\ DIRECTIONS[5] = <<0, -1>>
       /\ At(game.board, <<3, 4>>) = "White"
       /\ Entry(game.moves, <<3, 5>>) =
            [ok |-> TRUE,
             move |-> [color |-> "Black",
                       flips |-> <<0, 0, 0, 0, 1, 0, 0, 0>>,
                       position |-> <<3, 5>>]]
       /\ LegalAttempt(<<3, 5>>) =>
            /\ game'.tag \in {"Place", "Skip"}
            /\ At(game'.board, <<3, 4>>) = "Black"
            /\ At(game'.board, <<3, 5>>) = "Black"
            /\ game'.player = "White"
    ]_vars

\* Black has opened on (3,5).
C12_Witness ==
  /\ last_call = [op |-> "place", cell |-> <<3, 5>>]
  /\ game.tag = "Place"
  /\ Pieces(game.board) = OpeningPieces + 1

\* The step is a move: a legal placement or an acknowledged skip.
IsMove ==
  \/ last_call'.op = "skip"
  \/ last_call'.op = "place" /\ "cell" \in DOMAIN last_call'

\* C13: the movers alternate.  Black is the first to move; every move (a
\* legal placement or a skip, made by the player of the state it is made
\* in) hands the turn to the other color, and a rejected attempt leaves the
\* turn where it is.  So two placements of one color in a row have a skip
\* of the other color between them.
C13_MoversAlternate ==
  [][/\ last_call.op = "new_game" => game.player = "Black"
     /\ (IsMove /\ game'.tag \in {"Place", "Skip"}) =>
          game'.player = flip(game.player)
     /\ (~IsMove /\ game'.tag \in {"Place", "Skip"}) =>
          game'.player = game.player
    ]_vars

\* Black places after an odd number of placements: White has skipped in
\* between.
C13_Witness ==
  /\ last_call.op = "place"
  /\ "cell" \in DOMAIN last_call
  /\ game.tag \in {"Place", "Skip"}
  /\ At(game.board, last_call.cell) = "Black"
  /\ Pieces(game.board) % 2 = 0

\* C14: the grid is never stale: every entry the grid of a Place state
\* holds is the per-cell test of its cell for the state's player on the
\* state's board; a LegalMove in it has the player's color and the
\* position of its cell, and is there exactly when the sandwich rule
\* makes the cell legal.
C14_GridNeverStale ==
  game.tag = "Place" =>
    \A i \in DOMAIN game.moves : \A j \in DOMAIN game.moves[i] :
      LET entry == game.moves[i][j]
      IN  /\ entry = test_position(game.board, game.player, <<i, j>>)
          /\ entry.ok <=> SandwichLegal(game.board, game.player, <<i, j>>)
          /\ entry.ok => /\ entry.move.color = game.player
                         /\ entry.move.position = <<i, j>>

\* A Place state that has seen three placements and then a rejected
\* attempt.
C14_Witness ==
  /\ game.tag = "Place"
  /\ game.retry_reason.some
  /\ Pieces(game.board) >= OpeningPieces + 3

\* C15: applying a LegalMove of the grid cannot abort: every cell it flips
\* is on the board and holds the opponent of the mover, so the unwrap finds
\* a piece and the flipped piece gets the mover's color.
C15_ApplyCannotFail ==
  game.tag = "Place" =>
    \A c \in LegalCells(game.moves) :
      LET move == Entry(game.moves, c).move
          applied == apply(move, game.board)
      IN  /\ \A i \in DirIndex : \A k \in 1 .. move.flips[i] :
               LET cell == RayCell(move.position, DIRECTIONS[i], k)
               IN  /\ OnBoard(cell)
                   /\ At(game.board, cell) = flip(move.color)
                   /\ At(applied.cells, cell) = move.color
          /\ ~applied.panic

\* A move of the grid that flips along a line of three pieces.
C15_Witness ==
  /\ game.tag = "Place"
  /\ \E c \in LegalCells(game.moves) :
       \E i \in DirIndex : Entry(game.moves, c).move.flips[i] >= 3

\* C16: every LegalMove in the grid of a Place state has 8 counts, each
\* at least 0 and one of them above 0.
C16_LegalMoveWellFormed ==
  game.tag = "Place" =>
    \A c \in LegalCells(game.moves) :
      LET flips == Entry(game.moves, c).move.flips
      IN  /\ DOMAIN flips = 1 .. 8
          /\ \A i \in DOMAIN flips : flips[i] >= 0
          /\ \E i \in DOMAIN flips : flips[i] > 0

\* A grid holding a LegalMove that captures in three directions.
C16_Witness ==
  /\ game.tag = "Place"
  /\ \E c \in LegalCells(game.moves) :
       Cardinality({i \in DirIndex :
                      Entry(game.moves, c).move.flips[i] > 0}) >= 3

\* C17: the grid of every Place state holds at least one LegalMove.
C17_PlaceNeverStuck ==
  game.tag = "Place" =>
    \E i \in DOMAIN game.moves : \E j \in DOMAIN game.moves[i] :
      game.moves[i][j].ok

\* skip has returned a Place state whose player has exactly one legal cell.
C17_Witness ==
  /\ game.tag = "Place"
  /\ last_call.op = "skip"
  /\ Cardinality(LegalCells(game.moves)) = 1

\* C18: pieces are never removed and exactly one is added per legal
\* placement.  The opening board holds 4 pieces; from a Place or Skip state
\* to the next, a legal placement keeps every occupied cell occupied and
\* adds exactly one occupied cell, and a rejected attempt or a skip leaves
\* the board, hence the count, as it was.  So the count is 4 plus the
\* number of legal placements made so far.
C18_PiecesOnlyGrow ==
  [][/\ last_call.op = "new_game" => Pieces(game.board) = 4
     /\ (game.tag \in {"Place", "Skip"} /\ game'.tag \in {"Place", "Skip"}) =>
          IF last_call'.op = "place" /\ "cell" \in DOMAIN last_call'
          THEN /\ \A c \in Coord :
                    At(game.board, c) # None => At(game'.board, c) # None
               /\ Pieces(game'.board) = Pieces(game.board) + 1
          ELSE game'.board = game.board
    ]_vars

\* A Skip state after at least eight placements.
C18_Witness ==
  /\ game.tag = "Skip"
  /\ Pieces(game.board) >= OpeningPieces + 8

LastLine == {c \in Coord : c[1] = BoardSize - 1 \/ c[2] = BoardSize - 1}

LegalPlacement ==
  /\ game.tag = "Place"
  /\ \E c \in Selectable(game) \cap LegalCells(game.moves) : CallPlace(c)

\* LegalPlacement can change the state: a selectable cell holds a LegalMove
\* (applying it adds a piece).
LegalPlacementEnabled ==
  /\ game.tag = "Place"
  /\ Selectable(game) \cap LegalCells(game.moves) # {}

\* The caller of C20: in a Place state it eventually selects a cell
\* holding a LegalMove, in a Skip state it eventually calls skip.  The last
\* conjunct is WF_vars(LegalPlacement) written out, with the enabling
\* condition of the action as a state predicate.
SpecLive ==
  /\ Init /\ [][Next]_vars
  /\ WF_vars(CallSkip)
  /\ ([]<>(~LegalPlacementEnabled) \/ []<><<LegalPlacement>>_vars)

\* C20: every game ends: End is eventually reached, after at most 60
\* legal placements and with no two Skip states in a row, and no
\* transition leaves End.
C20_EveryGameEnds ==
  /\ <>(game.tag = "End")
  /\ [][/\ game.tag # "End"
        /\ game.tag = "Skip" => game'.tag # "Skip"
        /\ game'.tag \in {"Place", "Skip"} =>
             Pieces(game'.board) <= OpeningPieces + 60
       ]_vars

====
